---- MODULE Spec2Model ----
(***************************************************************************)
(* Model of the serverless request handler of kb-chat-from-lp             *)
(* (src/lambda_function.py): request parsing and validation, the call to  *)
(* the retrieval-and-generation service, reference extraction             *)
(* (deduplicate + rank), link materialization, and the response envelope; *)
(* and of the session bookkeeping of the chat client (src/app.py).         *)
(***************************************************************************)
EXTENDS Integers, Sequences, FiniteSets, TLC

VARIABLES
    pc,               \* position of the handler: idle, bedrock, signing, done
    event,            \* the inbound event of the current invocation
    user_query,       \* local user_query of lambda_handler
    session_id,       \* local session_id of lambda_handler
    retrieve_request, \* the request handed to client.retrieve_and_generate
    kb,               \* outcome of retrieve_and_generate (client_knowledgebase)
    references,       \* outcome of extract_references(kb citations)
    idx,              \* loop position of process_s3_urls in references
    processed_refs,   \* processed_refs of process_s3_urls
    sign_requests,    \* calls made to s3_client.generate_presigned_url, in order
    response,         \* what lambda_handler returned
    session_state,    \* st.session_state of the chat client (src/app.py)
    api_call,         \* the last call_api of the client: request body and result
    chat_history      \* what the client did last and the responses it has received

\* the variables of the request handler
handler_vars == << pc, event, user_query, session_id, retrieve_request, kb, references,
                   idx, processed_refs, sign_requests, response >>

\* the variables of the chat client
client_vars == << session_state, api_call, chat_history >>

vars == << pc, event, user_query, session_id, retrieve_request, kb, references,
           idx, processed_refs, sign_requests, response,
           session_state, api_call, chat_history >>

----------------------------------------------------------------------------
(* Bounds of the model. *)

\* references in one citation list given to extract_references alone
MaxRefs == 3
\* retrieved references in one upstream answer handled by lambda_handler
MaxKbRefs == 2
\* citations in one citation list
MaxCitations == 2

----------------------------------------------------------------------------
(* Python values. *)

\* None, where the other values are strings
None == "<None>"
\* a key that is not in a dict, where the other values are strings
Absent == "<absent>"

\* dict.get(key) on a field that is Absent or a value
DictGet(v) == IF v = Absent THEN None ELSE v

\* Truthy that accepts every value
TruthyUnchecked(v) == TRUE

\* truth value of a string or None
Truthy(v) == v # None /\ v # ""

\* no exception
NoExc == [type |-> "", msg |-> ""]

Exc(t, m) == [type |-> t, msg |-> m]

----------------------------------------------------------------------------
(* Storage URIs: scheme s3, a host (netloc) of dot-separated labels and a  *)
(* path of characters. Two URIs are the same string iff the records are    *)
(* equal.                                                                  *)

\* s3://b/k1
U1 == [netloc |-> << "b" >>, path |-> << "/", "k1" >>]
\* s3://b/k2
U2 == [netloc |-> << "b" >>, path |-> << "/", "k2" >>]
\* s3://b.x//k1
U3 == [netloc |-> << "b", "x" >>, path |-> << "/", "/", "k1" >>]

NoUri == [netloc |-> << >>, path |-> << >>]

\* parsed_url.netloc.split('.')[0]
BucketOf(uri) == IF uri.netloc = << >> THEN "" ELSE Head(uri.netloc)

RECURSIVE LStrip(_, _)
\* str.lstrip(ch)
LStrip(s, ch) == IF s # << >> /\ Head(s) = ch THEN LStrip(Tail(s), ch) ELSE s

\* parsed_url.path.lstrip('/')
KeyOf(uri) == LStrip(uri.path, "/")

----------------------------------------------------------------------------
(* Texts are sequences of characters; " " is the whitespace character.     *)

TA == << " ", "a", " " >>
TB == << "b" >>

RECURSIVE RStrip(_, _)
RStrip(s, ch) ==
    IF s # << >> /\ s[Len(s)] = ch THEN RStrip(SubSeq(s, 1, Len(s) - 1), ch) ELSE s

\* str.strip()
Strip(s) == RStrip(LStrip(s, " "), " ")

----------------------------------------------------------------------------
(* Retrieved references as the service returns them. A field holds its     *)
(* kind (the key is absent, is null, or has a value) and the value.        *)

\* location: no 'location' key | no 's3Location' in it | no 'uri' in that | a uri
Loc(kind, uri) == [kind |-> kind, uri |-> uri]
\* content: no 'content' key | null | no 'text' in it | text null | a text
Content(kind, text) == [kind |-> kind, text |-> text]
\* score: no 'score' key | null | a number
Score(kind, num) == [kind |-> kind, num |-> num]

Ref(l, c, s) == [location |-> l, content |-> c, score |-> s]

GoodRef(uri, text, num) ==
    Ref(Loc("uri", uri), Content("text", text), Score("num", num))

\* the references that extract_references is tried on
RefPool ==
    { GoodRef(U1, TA, 9), GoodRef(U1, TB, 5), GoodRef(U2, TB, 9), GoodRef(U2, TA, 5),
      Ref(Loc("uri", U3), Content("absent", << >>), Score("absent", 0)),
      Ref(Loc("absent", NoUri), Content("text", TA), Score("num", 9)),
      Ref(Loc("no_s3", NoUri), Content("text", TA), Score("num", 9)),
      Ref(Loc("no_uri", NoUri), Content("text", TA), Score("num", 9)),
      Ref(Loc("uri", U3), Content("null", << >>), Score("num", 9)),
      Ref(Loc("uri", U3), Content("no_text", << >>), Score("num", 5)),
      Ref(Loc("uri", U3), Content("null_text", << >>), Score("num", 5)),
      Ref(Loc("uri", U2), Content("text", TA), Score("null", 0)) }

\* the references of the upstream answers that lambda_handler is tried on
KbRefPool ==
    { GoodRef(U1, TA, 9), GoodRef(U1, TB, 5), GoodRef(U2, TB, 9),
      Ref(Loc("uri", U3), Content("absent", << >>), Score("absent", 0)),
      Ref(Loc("absent", NoUri), Content("text", TA), Score("num", 9)),
      Ref(Loc("no_s3", NoUri), Content("text", TA), Score("num", 9)),
      Ref(Loc("no_uri", NoUri), Content("text", TA), Score("num", 9)),
      Ref(Loc("uri", U2), Content("text", TA), Score("null", 0)) }

\* a citation: 'retrievedReferences' is present or not
Citation(present, refs) == [present |-> present, refs |-> refs]

SeqsUpTo(S, n) == UNION { [1..k -> S] : k \in 0..n }

\* how a flat list of total references is cut into at most MaxCitations
\* citations: per citation, whether 'retrievedReferences' is present and how
\* many references it holds
Shapes(total) ==
    LET part == { c \in [present : BOOLEAN, len : 0..total] : c.present \/ c.len = 0 }
        RECURSIVE Sum(_)
        Sum(sh) == IF sh = << >> THEN 0 ELSE Head(sh).len + Sum(Tail(sh))
    IN  { sh \in SeqsUpTo(part, MaxCitations) : Sum(sh) = total }

\* the citation list that holds the references of flat in the shape sh
RECURSIVE Cut(_, _)
Cut(flat, sh) ==
    IF sh = << >> THEN << >>
    ELSE << Citation(Head(sh).present, SubSeq(flat, 1, Head(sh).len)) >>
         \o Cut(SubSeq(flat, Head(sh).len + 1, Len(flat)), Tail(sh))

----------------------------------------------------------------------------
(* extract_references                                                      *)

\* what a function returns or raises
Returned(v) == [exc |-> NoExc, value |-> v]
Raised(t, m) == [exc |-> Exc(t, m), value |-> << >>]

\* a score in an extracted reference: a number or None
NumScore(n) == [none |-> FALSE, num |-> n]
NoneScore == [none |-> TRUE, num |-> 0]

\* the entry appended at lines 59-63
Entry(uri, snippet, score) == [uri |-> uri, snippet |-> snippet, score |-> score]

\* citation.get('retrievedReferences', []) of every citation, in iteration order
RECURSIVE Flatten(_)
Flatten(citations) ==
    IF citations = << >> THEN << >>
    ELSE (IF Head(citations).present THEN Head(citations).refs ELSE << >>)
         \o Flatten(Tail(citations))

\* HasS3Location that accepts every reference
HasS3LocationUnchecked(reference) == TRUE

\* 'location' in reference and 's3Location' in reference['location']
HasS3Location(reference) == reference.location.kind \in { "no_uri", "uri" }

\* reference.get('score', 0)
ScoreOf(reference) ==
    CASE reference.score.kind = "absent" -> NumScore(0)
      [] reference.score.kind = "null" -> NoneScore
      [] OTHER -> NumScore(reference.score.num)

\* reference.get('content', {}).get('text', '').strip(), or the exception it raises
SnippetOf(reference) ==
    CASE reference.content.kind = "null" ->
            Raised("AttributeError", "'NoneType' object has no attribute 'get'")
      [] reference.content.kind = "null_text" ->
            Raised("AttributeError", "'NoneType' object has no attribute 'strip'")
      [] reference.content.kind \in { "absent", "no_text" } -> Returned(Strip(<< >>))
      [] OTHER -> Returned(Strip(reference.content.text))

\* Unseen without the look-up in seen_uris
UnseenUnchecked(uri, seen_uris) == TRUE

\* uri not in seen_uris
Unseen(uri, seen_uris) == uri \notin seen_uris

\* the loops of lines 52-63 over the remaining references: the collected
\* list, or the first exception raised
RECURSIVE Collect(_, _, _)
Collect(refs, acc, seen_uris) ==
    IF refs = << >> THEN Returned(acc)
    ELSE LET reference == Head(refs)
             uri == reference.location.uri
         IN  IF ~HasS3Location(reference) THEN Collect(Tail(refs), acc, seen_uris)
             ELSE IF reference.location.kind = "no_uri" THEN Raised("KeyError", "'uri'")
             ELSE IF ~Unseen(uri, seen_uris) THEN Collect(Tail(refs), acc, seen_uris)
             ELSE IF SnippetOf(reference).exc # NoExc THEN SnippetOf(reference)
             ELSE Collect(Tail(refs),
                          Append(acc, Entry(uri, SnippetOf(reference).value,
                                            ScoreOf(reference))),
                          seen_uris \cup { uri })

\* GoesBefore of a sort that is not stable: x passes entries of equal score
GoesBeforeUnstable(x, y) == x.score.num >= y.score.num

\* where list.sort(key=score, reverse=True) puts x among the already sorted
\* entries: behind every entry whose score is not smaller (the sort is stable)
GoesBefore(x, y) == x.score.num > y.score.num

RECURSIVE InsertSorted(_, _)
InsertSorted(sorted, x) ==
    IF sorted = << >> THEN << x >>
    ELSE IF GoesBefore(x, Head(sorted)) THEN << x >> \o sorted
    ELSE << Head(sorted) >> \o InsertSorted(Tail(sorted), x)

RECURSIVE SortByScore(_, _)
SortByScore(todo, sorted) ==
    IF todo = << >> THEN sorted
    ELSE SortByScore(Tail(todo), InsertSorted(sorted, Head(todo)))

\* references.sort(key=lambda x: x['score'], reverse=True): comparing None
\* with a score raises TypeError; a list of one entry is never compared
SortReferences(refs) ==
    IF Len(refs) >= 2 /\ \E i \in 1..Len(refs) : refs[i].score.none
    THEN Raised("TypeError", "'<' not supported")
    ELSE Returned(SortByScore(refs, << >>))

extract_references(citations) ==
    LET collected == Collect(Flatten(citations), << >>, { })
    IN  IF collected.exc # NoExc THEN collected ELSE SortReferences(collected.value)

----------------------------------------------------------------------------
(* Inbound events.                                                         *)

\* the JSON object with the request fields; a field is Absent, None (null)
\* or a string
Body(q, sid) == [user_query |-> q, sessionId |-> sid]

Queries == { Absent, "", "What is X?" }
SessionIds == { Absent, None, "", "s1" }
Bodies == { Body(q, sid) : q \in Queries, sid \in SessionIds }

\* kind "not_dict": the event is no dict (a list, a string);
\* kind "body_str": API Gateway event whose 'body' is a string, which is invalid
\*    JSON, JSON for something that is no object, or JSON for the object body;
\* kind "body_obj": event whose 'body' is no string: null, or the object body;
\* kind "direct": direct invocation, the event is the object body itself
Event(kind, json, body) == [kind |-> kind, json |-> json, body |-> body]

Events ==
    { Event("not_dict", "non_object", Body(Absent, Absent)),
      Event("body_str", "invalid", Body(Absent, Absent)),
      Event("body_str", "non_object", Body(Absent, Absent)),
      Event("body_obj", "non_object", Body(Absent, Absent)) }
    \cup { Event(k, "object", b) : k \in { "body_str", "body_obj", "direct" }, b \in Bodies }

\* get_request_data raises: no value is bound
NoData(t, m) == [exc |-> Exc(t, m), value |-> [user_query |-> None, session_id |-> None]]

\* get_request_data: (user_query, session_id), or the exception it re-raises
get_request_data(e) ==
    CASE e.kind = "not_dict" -> NoData("ValueError", "Invalid event format")
      [] e.kind = "body_str" /\ e.json = "invalid" ->
            NoData("JSONDecodeError", "Expecting value: line 1 column 1 (char 0)")
      [] e.json = "non_object" ->
            NoData("AttributeError", "object has no attribute 'get'")
      [] OTHER -> Returned([user_query |-> DictGet(e.body.user_query),
                            session_id |-> DictGet(e.body.sessionId)])

----------------------------------------------------------------------------
(* Responses.                                                              *)

NumberOfResults == 3
\* expiration default of generate_presigned_url, in seconds
DefaultExpiration == 1800
\* timedelta(hours=1), in seconds
ExpirationTimeDelta == 3600

CorsHeaders ==
    [allow_headers |-> "Content-Type,X-Amz-Date,Authorization,X-Api-Key,X-Amz-Security-Token",
     allow_origin |-> "*", allow_methods |-> "OPTIONS,POST",
     content_type |-> "application/json"]

\* create_response: the body record stands for its JSON text
create_response(status_code, body) ==
    [statusCode |-> status_code, headers |-> CorsHeaders, body |-> body]

NoResponse == create_response(0, [error |-> ""])

\* the body of lines 117-119
BadRequestBody(exc) == [error |-> << "Error processing request: ", exc.msg >>]

\* the body of lines 123-125
QueryRequiredBody == [error |-> << "user_query is required" >>]

\* ErrorBody that does not find session_id among the locals
ErrorBodyNoSession(exc, sid) ==
    [error |-> << exc.msg >>,
     generated_response |-> "An error occurred while processing your request.",
     detailed_references |-> << >>,
     sessionId |-> None]

\* the body of lines 220-225, for the exception caught and the local session_id
ErrorBody(exc, sid) ==
    [error |-> << exc.msg >>,
     generated_response |-> "An error occurred while processing your request.",
     detailed_references |-> << >>,
     sessionId |-> sid]

\* SuccessBody that returns no session identifier
SuccessBodyNoSession(text, refs, new_session_id) ==
    [generated_response |-> text,
     detailed_references |-> refs,
     urlExpirationTime |-> ExpirationTimeDelta,
     sessionId |-> None,
     sourceCount |-> Len(refs)]

\* the body of lines 208-214; urlExpirationTime in seconds after utcnow()
SuccessBody(text, refs, new_session_id) ==
    [generated_response |-> text,
     detailed_references |-> refs,
     urlExpirationTime |-> ExpirationTimeDelta,
     sessionId |-> new_session_id,
     sourceCount |-> Len(refs)]

\* RetrieveRequest that never adds the sessionId
RetrieveRequestNoSession(query, sid) ==
    [text |-> query,
     numberOfResults |-> NumberOfResults,
     overrideSearchType |-> "HYBRID",
     sessionId |-> Absent]

\* lines 128-191: the request for Bedrock; sessionId is Absent when not added
RetrieveRequest(query, sid) ==
    [text |-> query,
     numberOfResults |-> NumberOfResults,
     overrideSearchType |-> "HYBRID",
     sessionId |-> IF Truthy(sid) THEN sid ELSE Absent]

NoRequest == [text |-> Absent, numberOfResults |-> 0, overrideSearchType |-> "",
              sessionId |-> Absent]

----------------------------------------------------------------------------
(* The retrieval-and-generation service.                                   *)

\* an answer of retrieve_and_generate: 'citations' present or not, output
\* text (Absent: no 'output'), sessionId (Absent: no 'sessionId')
KbAnswer(has_citations, citations, text, sid) ==
    [exc |-> NoExc, has_citations |-> has_citations, citations |-> citations,
     text |-> text, sessionId |-> sid]

KbRaised(exc) ==
    [exc |-> exc, has_citations |-> FALSE, citations |-> << >>, text |-> Absent,
     sessionId |-> Absent]

NoKb == KbRaised(NoExc)

\* output text and sessionId of the answers
KbTexts == { << "answer", "s2" >>, << "answer", Absent >>, << Absent, "s2" >> }

\* what retrieve_and_generate raises: the detail text differs
KbExceptions ==
    { Exc("ClientError", "ThrottlingException: rate exceeded"),
      Exc("ClientError", "AccessDeniedException: not authorized on arn:aws:bedrock:kb/K1") }

----------------------------------------------------------------------------
(* Link materialization.                                                   *)

\* a presigned URL for the object, valid expires_in seconds; or None
Url(bucket, key, expires_in) ==
    [none |-> FALSE, bucket |-> bucket, key |-> key, expires_in |-> expires_in]
NoneUrl == [none |-> TRUE, bucket |-> "", key |-> << >>, expires_in |-> 0]

\* the call s3_client.generate_presigned_url('get_object', Params, ExpiresIn)
SignRequest(bucket, key, expires_in, signed) ==
    [bucket |-> bucket, key |-> key, disposition |-> "inline",
     expires_in |-> expires_in, signed |-> signed]

\* generate_presigned_url: the URL, or None when the signer raised
generate_presigned_url(bucket, key, expiration, signed) ==
    IF signed THEN Url(bucket, key, expiration) ELSE NoneUrl

\* UrlTruthy that accepts None
UrlTruthyUnchecked(url) == TRUE

\* if presigned_url:
UrlTruthy(url) == ~url.none

\* ref['presigned_url'] = presigned_url
WithUrl(ref, url) ==
    [uri |-> ref.uri, snippet |-> ref.snippet, score |-> ref.score, presigned_url |-> url]

\* process_s3_urls_step that keeps a reference whose link failed
process_s3_urls_step_keep(acc, ref, url) == Append(acc, WithUrl(ref, url))

\* one iteration of the loop of process_s3_urls (lines 35-44) on ref: the
\* new processed_refs
process_s3_urls_step(acc, ref, url) ==
    IF UrlTruthy(url) THEN Append(acc, WithUrl(ref, url)) ELSE acc

----------------------------------------------------------------------------
(* The chat client (src/app.py): st.session_state, call_api and the        *)
(* handlers of the chat input and of the refresh and logout buttons.       *)

\* calls of handle_chat_input between two resets of the chat
MaxInputs == 3

\* st.session_state: the fields the chat handlers read and write
SessionState(visible, authenticated, messages, sid) ==
    [chat_visible |-> visible, is_authenticated |-> authenticated,
     messages |-> messages, session_id |-> sid]

\* lines 22-29: the initial session state
InitialSessionState == SessionState(FALSE, FALSE, << >>, None)

\* lines 135-139: the request body of call_api; sessionId is Absent when not added
call_api_request_body(query, sid) ==
    [user_query |-> query, sessionId |-> IF Truthy(sid) THEN sid ELSE Absent]

\* what the Lambda service answers when the handler did not return (a timeout)
CrashBody == [errorMessage |-> "Task timed out"]

\* a reference of a response, with its link
SampleReference ==
    WithUrl(Entry(U1, << "a" >>, NumScore(9)),
            Url(BucketOf(U1), KeyOf(U1), DefaultExpiration))

\* the JSON objects a response carries for a request sent with sessionId
\* sent: the success envelope with the sessionId of the service (null if it
\* gave none), the error body, which echoes the sessionId received, or the
\* answer of the Lambda service for a handler that did not return
ApiPayloads(sent) ==
    { SuccessBody("answer", refs, sid) :
        refs \in { << >>, << SampleReference >> }, sid \in { None, "s1", "s2" } }
    \cup { ErrorBody(exc, DictGet(sent)) : exc \in KbExceptions }
    \cup { CrashBody }

\* the result of call_api (lines 141-154): None after a RequestException (no
\* connection, a timeout, an HTTP error status), or response.json(), which is
\* the empty object, the payload itself, a string that holds its JSON text,
\* or the handler's response object with the JSON text in 'body'
ApiResult(form, payload) == [form |-> form, payload |-> payload]

NoResult == ApiResult("none", [errorMessage |-> ""])

ApiResults(sent) ==
    { NoResult, ApiResult("empty", [errorMessage |-> ""]) }
    \cup { ApiResult(form, payload) :
             form \in { "plain", "string", "wrapped" }, payload \in ApiPayloads(sent) }

\* `if api_response:` (line 298)
ResultTruthy(result) == result.form \notin { "none", "empty" }

\* lines 299-302: the object that json.loads takes out of a string and of 'body'
Unwrapped(result) == result.payload

\* api_response.get('generated_response', 'No response available')
ResponseContent(payload) ==
    IF "generated_response" \in DOMAIN payload
    THEN payload.generated_response ELSE "No response available"

\* api_response.get('detailed_references', [])
ResponseReferences(payload) ==
    IF "detailed_references" \in DOMAIN payload THEN payload.detailed_references ELSE << >>

\* a session_id that no response changes
ResponseSessionIdKept(payload, sid) == sid

\* lines 307-308: the new session_id
ResponseSessionId(payload, sid) ==
    IF "sessionId" \in DOMAIN payload THEN payload.sessionId ELSE sid

\* lines 288-292: the user message (the timestamp is left out)
UserMessage(user_input) == [role |-> "user", content |-> user_input]

\* lines 310-315: the assistant message (the timestamp is left out)
AssistantMessage(payload) ==
    [role |-> "assistant", content |-> ResponseContent(payload),
     references |-> ResponseReferences(payload)]

\* handle_chat_input (lines 285-317) for a non-empty user_input, given the
\* result of its call_api: the new session state
handle_chat_input(st, user_input, result) ==
    LET with_user == Append(st.messages, UserMessage(user_input))
        payload == Unwrapped(result)
    IN  IF ResultTruthy(result)
        THEN SessionState(st.chat_visible, st.is_authenticated,
                          Append(with_user, AssistantMessage(payload)),
                          ResponseSessionId(payload, st.session_id))
        ELSE SessionState(st.chat_visible, st.is_authenticated, with_user, st.session_id)

\* clear_chat (lines 163-165)
clear_chat(st) == SessionState(st.chat_visible, st.is_authenticated, << >>, None)

\* logout (lines 167-171)
logout(st) == SessionState(FALSE, FALSE, << >>, None)

\* the last call of call_api: whether one was made, its request body, its result
ApiCall(made, body, result) == [made |-> made, request_body |-> body, result |-> result]

NoApiCall == ApiCall(FALSE, call_api_request_body("", None), NoResult)

\* What the client has done, kept to state the properties of the session:
\* last: the handler that ran last;
\* inputs: the calls of handle_chat_input since the chat was last reset;
\* latest: the sessionId of the most recent response, since the last reset,
\*    that call_api returned and that carried a sessionId (None if none);
\* recent: the sessionId of the most recent response, since the last reset,
\*    that call_api returned (None if none, or if it carried no sessionId);
\* prior_latest, prior_recent: latest and recent when call_api was last called;
\* before: the session state when the last handler started
ChatHistory(last, inputs, latest, recent, prior_latest, prior_recent, before) ==
    [last |-> last, inputs |-> inputs, latest |-> latest, recent |-> recent,
     prior_latest |-> prior_latest, prior_recent |-> prior_recent, before |-> before]

InitialChatHistory == ChatHistory("start", 0, None, None, None, None, InitialSessionState)

\* the chat history after handle_chat_input got result
HistoryAfterInput(h, st, result) ==
    LET returned == result.form # "none"
        carries == ResultTruthy(result) /\ "sessionId" \in DOMAIN Unwrapped(result)
    IN  ChatHistory("input", h.inputs + 1,
                    IF carries THEN Unwrapped(result).sessionId ELSE h.latest,
                    IF carries THEN Unwrapped(result).sessionId
                    ELSE IF returned THEN None ELSE h.recent,
                    h.latest, h.recent, st)

ClientInit ==
    /\ session_state = InitialSessionState
    /\ api_call = NoApiCall
    /\ chat_history = InitialChatHistory

\* lines 327-330: the chat button
ShowChat ==
    /\ ~session_state.chat_visible
    /\ session_state' = SessionState(TRUE, session_state.is_authenticated,
                                     session_state.messages, session_state.session_id)
    /\ chat_history' = [chat_history EXCEPT !.last = "show", !.before = session_state]
    /\ UNCHANGED api_call

\* lines 355-364 and authenticate (lines 156-161): a login that succeeds
Login ==
    /\ session_state.chat_visible
    /\ ~session_state.is_authenticated
    /\ session_state' = SessionState(session_state.chat_visible, TRUE,
                                     session_state.messages, session_state.session_id)
    /\ chat_history' = [chat_history EXCEPT !.last = "login", !.before = session_state]
    /\ UNCHANGED api_call

\* lines 372-375: a chat input; call_api sends the request and gets result
ChatInput(user_input, result) ==
    /\ session_state.chat_visible
    /\ session_state.is_authenticated
    /\ chat_history.inputs < MaxInputs
    /\ api_call' = ApiCall(TRUE,
                           call_api_request_body(user_input, session_state.session_id),
                           result)
    /\ session_state' = handle_chat_input(session_state, user_input, result)
    /\ chat_history' = HistoryAfterInput(chat_history, session_state, result)

\* lines 345-348: the refresh button
ClearChat ==
    /\ session_state.chat_visible
    /\ session_state' = clear_chat(session_state)
    /\ chat_history' = ChatHistory("clear", 0, None, None, chat_history.prior_latest,
                                   chat_history.prior_recent, session_state)
    /\ UNCHANGED api_call

\* lines 350-353: the logout button
Logout ==
    /\ session_state.chat_visible
    /\ session_state' = logout(session_state)
    /\ chat_history' = ChatHistory("logout", 0, None, None, chat_history.prior_latest,
                                   chat_history.prior_recent, session_state)
    /\ UNCHANGED api_call

NextClient ==
    \/ ShowChat /\ UNCHANGED handler_vars
    \/ Login /\ UNCHANGED handler_vars
    \/ /\ session_state.is_authenticated
       /\ \E result \in ApiResults(call_api_request_body("What is X?",
                                       session_state.session_id).sessionId) :
            ChatInput("What is X?", result)
       /\ UNCHANGED handler_vars
    \/ ClearChat /\ UNCHANGED handler_vars
    \/ Logout /\ UNCHANGED handler_vars

----------------------------------------------------------------------------
(* lambda_handler, one invocation at a time. The handler is cut at its     *)
(* calls to the outside: retrieve_and_generate and, per reference, the     *)
(* signer.                                                                 *)

Init ==
    /\ pc = "idle"
    /\ event = Event("not_dict", "non_object", Body(Absent, Absent))
    /\ user_query = None
    /\ session_id = None
    /\ retrieve_request = NoRequest
    /\ kb = NoKb
    /\ references = Returned(<< >>)
    /\ idx = 1
    /\ processed_refs = << >>
    /\ sign_requests = << >>
    /\ response = NoResponse
    /\ ClientInit

\* lines 112-125: the request data cannot be read, or user_query is falsy: 400
Reject(e) ==
    LET data == get_request_data(e)
    IN  /\ pc = "idle"
        /\ data.exc # NoExc \/ ~Truthy(data.value.user_query)
        /\ event' = e
        /\ response' = IF data.exc # NoExc
                       THEN create_response(400, BadRequestBody(data.exc))
                       ELSE create_response(400, QueryRequiredBody)
        /\ user_query' = IF data.exc # NoExc THEN None ELSE data.value.user_query
        /\ session_id' = IF data.exc # NoExc THEN None ELSE data.value.session_id
        /\ pc' = "done"
        /\ UNCHANGED << retrieve_request, kb, references, idx, processed_refs,
                        sign_requests >>
        /\ UNCHANGED client_vars

\* lines 112-194: the request is valid; retrieve_and_generate is called
Invoke(e) ==
    LET data == get_request_data(e)
    IN  /\ pc = "idle"
        /\ data.exc = NoExc
        /\ Truthy(data.value.user_query)
        /\ event' = e
        /\ user_query' = data.value.user_query
        /\ session_id' = data.value.session_id
        /\ retrieve_request' = RetrieveRequest(data.value.user_query, data.value.session_id)
        /\ pc' = "bedrock"
        /\ UNCHANGED << kb, references, idx, processed_refs, sign_requests, response >>
        /\ UNCHANGED client_vars

\* line 194 raises; lines 218-225
BedrockRaises(exc) ==
    /\ pc = "bedrock"
    /\ kb' = KbRaised(exc)
    /\ response' = create_response(500, ErrorBody(exc, session_id))
    /\ pc' = "done"
    /\ UNCHANGED << event, user_query, session_id, retrieve_request, references, idx,
                    processed_refs, sign_requests >>
    /\ UNCHANGED client_vars

\* lines 194-197: the answer arrives and the references are extracted; an
\* exception of client_knowledgebase['citations'] or of extract_references
\* ends the invocation at lines 218-225
BedrockReturns(answer) ==
    LET extracted == IF answer.has_citations
                     THEN extract_references(answer.citations)
                     ELSE Raised("KeyError", "'citations'")
    IN  /\ pc = "bedrock"
        /\ kb' = answer
        /\ references' = extracted
        /\ idx' = 1
        /\ processed_refs' = << >>
        /\ IF extracted.exc # NoExc
           THEN /\ response' = create_response(500, ErrorBody(extracted.exc, session_id))
                /\ pc' = "done"
           ELSE /\ response' = response
                /\ pc' = "signing"
        /\ UNCHANGED << event, user_query, session_id, retrieve_request, sign_requests >>
        /\ UNCHANGED client_vars

\* lines 35-44 for references[idx]: one call of generate_presigned_url, which
\* the signer answers with a URL (signed) or an exception. 'uri' is in every
\* entry extract_references builds. The code also stores presigned_url in the
\* entry of references itself, which is not read again.
Sign(signed) ==
    LET ref == references.value[idx]
        bucket == BucketOf(ref.uri)
        key == KeyOf(ref.uri)
        url == generate_presigned_url(bucket, key, DefaultExpiration, signed)
    IN  /\ pc = "signing"
        /\ idx <= Len(references.value)
        /\ sign_requests' = Append(sign_requests,
                                   SignRequest(bucket, key, DefaultExpiration, signed))
        /\ processed_refs' = process_s3_urls_step(processed_refs, ref, url)
        /\ idx' = idx + 1
        /\ UNCHANGED << pc, event, user_query, session_id, retrieve_request, kb,
                        references, response >>
        /\ UNCHANGED client_vars

\* lines 198-216: process_s3_urls has returned; the envelope is assembled; a
\* missing 'output' raises KeyError, caught at lines 218-225
Respond ==
    /\ pc = "signing"
    /\ idx > Len(references.value)
    /\ response' = IF kb.text = Absent
                   THEN create_response(500, ErrorBody(Exc("KeyError", "'output'"),
                                                       session_id))
                   ELSE create_response(200, SuccessBody(kb.text, processed_refs,
                                                         DictGet(kb.sessionId)))
    /\ pc' = "done"
    /\ UNCHANGED << event, user_query, session_id, retrieve_request, kb, references,
                    idx, processed_refs, sign_requests >>
    /\ UNCHANGED client_vars

\* the next invocation starts with fresh locals
NextInvocation ==
    /\ pc = "done"
    /\ pc' = "idle"
    /\ event' = Event("not_dict", "non_object", Body(Absent, Absent))
    /\ user_query' = None
    /\ session_id' = None
    /\ retrieve_request' = NoRequest
    /\ kb' = NoKb
    /\ references' = Returned(<< >>)
    /\ idx' = 1
    /\ processed_refs' = << >>
    /\ sign_requests' = << >>
    /\ response' = NoResponse
    /\ UNCHANGED client_vars

Next ==
    \/ \E e \in Events : Reject(e)
    \/ \E e \in Events : Invoke(e)
    \/ \E exc \in KbExceptions : BedrockRaises(exc)
    \/ /\ pc = "bedrock"
       /\ \E flat \in SeqsUpTo(KbRefPool, MaxKbRefs) :
            \E sh \in Shapes(Len(flat)) :
              \E t \in KbTexts : BedrockReturns(KbAnswer(TRUE, Cut(flat, sh), t[1], t[2]))
    \/ BedrockReturns(KbAnswer(FALSE, << >>, "answer", "s2"))
    \/ \E signed \in BOOLEAN : Sign(signed)
    \/ Respond
    \/ NextInvocation

Spec == Init /\ [][Next]_vars

----------------------------------------------------------------------------
(* extract_references alone, on every citation list within the bounds.     *)

InitExtract ==
    /\ pc = "extract"
    /\ event = Event("not_dict", "non_object", Body(Absent, Absent))
    /\ user_query = None
    /\ session_id = None
    /\ retrieve_request = NoRequest
    /\ \E flat \in SeqsUpTo(RefPool, MaxRefs) :
         \E sh \in Shapes(Len(flat)) : kb = KbAnswer(TRUE, Cut(flat, sh), "answer", Absent)
    /\ references = Returned(<< >>)
    /\ idx = 1
    /\ processed_refs = << >>
    /\ sign_requests = << >>
    /\ response = NoResponse
    /\ ClientInit

ExtractReferences ==
    /\ pc = "extract"
    /\ references' = extract_references(kb.citations)
    /\ pc' = "extracted"
    /\ UNCHANGED << event, user_query, session_id, retrieve_request, kb, idx,
                    processed_refs, sign_requests, response >>
    /\ UNCHANGED client_vars

NextExtract == ExtractReferences

SpecExtract == InitExtract /\ [][NextExtract]_vars

----------------------------------------------------------------------------
(* The chat client alone.                                                  *)

SpecClient == Init /\ [][NextClient]_vars

----------------------------------------------------------------------------
(* Properties of the request handler (Spec).                               *)

\* the handler has read an event (event holds it)
Handling == pc \in { "bedrock", "signing", "done" }

\* the payload cannot be parsed: the event is no object, or its string body
\* is not valid JSON
Unparseable(e) == e.kind = "not_dict" \/ (e.kind = "body_str" /\ e.json = "invalid")

\* the payload is an object without user_query
QueryAbsent(e) == e.json = "object" /\ e.body.user_query = Absent

\* retrieve_and_generate was called in this invocation
BedrockCalled == retrieve_request # NoRequest

\* C1: an unparseable payload or an absent user_query is answered with status
\* 400 and an error body, and retrieve_and_generate is not called for it.
C1_BadRequest ==
    (Handling /\ (Unparseable(event) \/ QueryAbsent(event)))
        => /\ pc = "done"
           /\ response.statusCode = 400
           /\ DOMAIN response.body = { "error" }
           /\ ~BedrockCalled
           /\ kb = NoKb

C1_Witness ==
    /\ pc = "done"
    /\ event = Event("direct", "object", Body(Absent, "s1"))
    /\ response.statusCode = 400

----------------------------------------------------------------------------
(* Properties of extract_references (SpecExtract).                         *)

\* extract_references has returned a list
Extracted == pc = "extracted" /\ references.exc = NoExc

\* the retrieved references of the input, in received order
Received == Flatten(kb.citations)

\* the positions of the received references that carry the storage URI uri
Occurrences(uri) ==
    { i \in 1..Len(Received) :
        Received[i].location.kind = "uri" /\ Received[i].location.uri = uri }

\* the distinct storage URIs of the received references
CitedUris ==
    { Received[i].location.uri :
        i \in { j \in 1..Len(Received) : Received[j].location.kind = "uri" } }

\* the position at which uri is first seen
FirstSeen(uri) == CHOOSE i \in Occurrences(uri) : \A j \in Occurrences(uri) : i <= j

\* C2: the output of extract_references has exactly one entry per distinct
\* storage URI of the citation list, and the entry's snippet and score are
\* those of the first reference received with that URI.
C2_DedupFirstSeenWins ==
    Extracted =>
        LET out == references.value
        IN  /\ \A i, j \in 1..Len(out) : out[i].uri = out[j].uri => i = j
            /\ { out[i].uri : i \in 1..Len(out) } = CitedUris
            /\ \A i \in 1..Len(out) :
                  /\ out[i].snippet = SnippetOf(Received[FirstSeen(out[i].uri)]).value
                  /\ out[i].score = ScoreOf(Received[FirstSeen(out[i].uri)])

\* the example of the specification: the same URI with score 0.9, then 0.5
C2_Witness ==
    /\ Extracted
    /\ kb.citations = << Citation(TRUE, << GoodRef(U1, TA, 9), GoodRef(U1, TB, 5) >>) >>
    /\ references.value = << Entry(U1, << "a" >>, NumScore(9)) >>

\* C3: the output of extract_references is ordered by non-increasing score,
\* and entries of equal score are in the order their URIs were first seen.
C3_SortedStable ==
    Extracted =>
        LET out == references.value
        IN  \A i, j \in 1..Len(out) :
              i < j =>
                /\ ~out[i].score.none /\ ~out[j].score.none
                /\ out[i].score.num >= out[j].score.num
                /\ out[i].score.num = out[j].score.num
                     => FirstSeen(out[i].uri) < FirstSeen(out[j].uri)

\* a low score received first, then two equal scores
C3_Witness ==
    /\ Extracted
    /\ Len(Received) = 3 /\ Len(references.value) = 3
    /\ Received[1].location.uri = U3
    /\ references.value[1].uri = U1 /\ references.value[2].uri = U2
    /\ references.value[3].uri = U3
    /\ references.value[1].score = references.value[2].score
    /\ references.value[3].score.num < references.value[2].score.num

----------------------------------------------------------------------------
(* Properties of the enrichment and of the responses (Spec).               *)

\* retrieve_and_generate returned an answer in this invocation
Answered == pc \in { "signing", "done" } /\ BedrockCalled /\ kb.exc = NoExc

\* process_s3_urls was entered: the references were extracted
Enriching == Answered /\ kb.has_citations /\ references.exc = NoExc

\* process_s3_urls has returned
Enriched == Enriching /\ idx > Len(references.value)

\* a processed reference without its link
Plain(ref) == Entry(ref.uri, ref.snippet, ref.score)

\* the first n references whose link the signer produced, in order
RECURSIVE Signed(_, _, _)
Signed(refs, reqs, n) ==
    IF n = 0 THEN << >>
    ELSE Signed(refs, reqs, n - 1) \o (IF reqs[n].signed THEN << refs[n] >> ELSE << >>)

\* C4: process_s3_urls returns the references whose link was produced, in
\* the order of its input and never more than its input, each with a
\* presigned_url that is not empty.
C4_EnrichSubsequence ==
    Enriched =>
        /\ Len(sign_requests) = Len(references.value)
        /\ Len(processed_refs) <= Len(references.value)
        /\ [i \in 1..Len(processed_refs) |-> Plain(processed_refs[i])]
              = Signed(references.value, sign_requests, Len(references.value))
        /\ \A i \in 1..Len(processed_refs) : ~processed_refs[i].presigned_url.none

\* of two references the first is dropped and the second is kept
C4_Witness ==
    /\ Enriched
    /\ Len(references.value) = 2
    /\ ~sign_requests[1].signed /\ sign_requests[2].signed
    /\ Len(processed_refs) = 1
    /\ processed_refs[1].uri = references.value[2].uri

\* the signer failed for every extracted reference
AllSigningFailed == \A i \in 1..Len(sign_requests) : ~sign_requests[i].signed

\* C5: when the upstream call succeeds and signing fails for every extracted
\* reference, the response is 200 with the upstream generated_response, an
\* empty detailed_references and sourceCount 0; and whatever the signer
\* answers, the request is not turned into an error response.
C5_AllLinksFail ==
    /\ (pc = "done" /\ Enriched /\ kb.text # Absent /\ AllSigningFailed)
         => /\ response.statusCode = 200
            /\ response.body.generated_response = kb.text
            /\ response.body.detailed_references = << >>
            /\ response.body.sourceCount = 0
    /\ (pc = "done" /\ Enriched /\ kb.text # Absent) => response.statusCode = 200

C5_Witness ==
    /\ pc = "done" /\ Enriched /\ AllSigningFailed
    /\ Len(references.value) = 2 /\ Len(sign_requests) = 2
    /\ response.statusCode = 200
    /\ response.body.detailed_references = << >>

\* an exception was raised while calling retrieve_and_generate or while
\* processing its answer
ProcessingRaised ==
    /\ pc = "done" /\ BedrockCalled
    /\ \/ kb.exc # NoExc
       \/ ~kb.has_citations
       \/ references.exc # NoExc
       \/ kb.text = Absent

\* the session identifier the request carried, null if none
ReceivedSessionId == DictGet(event.body.sessionId)

\* C6: an exception while calling retrieve_and_generate or processing its
\* answer gives status 500, an error body, an empty detailed_references and
\* the sessionId of the request (null if none); every invocation ends with a
\* response.
C6_InternalFailure ==
    /\ ProcessingRaised
         => /\ response.statusCode = 500
            /\ "error" \in DOMAIN response.body
            /\ response.body.detailed_references = << >>
            /\ response.body.sessionId = ReceivedSessionId
    /\ pc = "done" => response.statusCode \in { 200, 400, 500 }

C6_Witness ==
    /\ ProcessingRaised
    /\ references.exc.type = "KeyError"
    /\ event.body.sessionId = "s1"
    /\ response.statusCode = 500
    /\ response.body.sessionId = "s1"

\* the request carries a sessionId: the field is there and is not null
CarriesSessionId == event.body.sessionId \notin { Absent, None }

\* C7 as stated: a call of retrieve_and_generate carries the sessionId of the
\* request unchanged, and no sessionId field when the request has none.
C7_SessionForwarded ==
    (Handling /\ BedrockCalled)
        => /\ CarriesSessionId => retrieve_request.sessionId = event.body.sessionId
           /\ ~CarriesSessionId => retrieve_request.sessionId = Absent

\* C7 amended: a call of retrieve_and_generate carries the sessionId of the
\* request unchanged when it is a non-empty string, and no sessionId field
\* when the request has none, a null one or an empty one.
C7_NonEmptySessionForwarded ==
    (Handling /\ BedrockCalled)
        => /\ (CarriesSessionId /\ event.body.sessionId # "")
                => retrieve_request.sessionId = event.body.sessionId
           /\ (~CarriesSessionId \/ event.body.sessionId = "")
                => retrieve_request.sessionId = Absent

C7_Witness ==
    /\ pc = "bedrock"
    /\ event.body.sessionId = "s1"
    /\ retrieve_request.sessionId = "s1"
    /\ retrieve_request.text = "What is X?"

\* a request with a non-empty user_query and no prior session, answered by
\* an upstream call whose answer was processed without an exception
FirstQuestionAnswered ==
    /\ pc = "done" /\ Enriched /\ kb.text # Absent
    /\ event.body.user_query = "What is X?"
    /\ ~CarriesSessionId

\* C8 as stated, read in its favour (the upstream call succeeds and its
\* answer carries a sessionId): status 200, a non-null sessionId, and as
\* many detailed_references as there are unique cited sources.
C8_OneReferencePerSource ==
    (FirstQuestionAnswered /\ kb.sessionId # Absent)
        => /\ response.statusCode = 200
           /\ response.body.sessionId # None
           /\ Len(response.body.detailed_references) = Cardinality(CitedUris)

\* C8 amended: status 200, the sessionId of the upstream answer (null if it
\* has none), and as many detailed_references as there are unique cited
\* sources whose link the signer produced: one signing request per unique
\* cited source, one entry per request that succeeded.
C8_OneReferencePerSignedSource ==
    FirstQuestionAnswered
        => /\ response.statusCode = 200
           /\ response.body.sessionId = DictGet(kb.sessionId)
           /\ kb.sessionId # Absent => response.body.sessionId # None
           /\ Len(sign_requests) = Cardinality(CitedUris)
           /\ Len(response.body.detailed_references)
                = Cardinality({ i \in 1..Len(sign_requests) : sign_requests[i].signed })
           /\ response.body.sourceCount = Len(response.body.detailed_references)

\* two unique sources are cited, and one link is produced
C8_Witness ==
    /\ FirstQuestionAnswered
    /\ Cardinality(CitedUris) = 2
    /\ sign_requests[1].signed /\ ~sign_requests[2].signed
    /\ response.statusCode = 200
    /\ response.body.sessionId = "s2"
    /\ Len(response.body.detailed_references) = 1

\* C9: every signing request of the enrichment asks for 3600 seconds, the
\* lifetime that urlExpirationTime advertises, and no returned link expires
\* before the advertised time.
C9_LinksLiveOneHour ==
    /\ \A i \in 1..Len(sign_requests) : sign_requests[i].expires_in = 3600
    /\ (pc = "done" /\ response.statusCode = 200)
         => \A i \in 1..Len(response.body.detailed_references) :
              response.body.detailed_references[i].presigned_url.expires_in
                >= response.body.urlExpirationTime

\* C10: when retrieve_and_generate raises, the body of the 500 response is
\* the same whatever the detail text of the exception: the body returned
\* equals the body the handler builds for the same request and any other
\* detail.
C10_GenericUpstreamError ==
    (pc = "done" /\ BedrockCalled /\ kb.exc # NoExc)
        => \A other \in KbExceptions :
              create_response(500, ErrorBody(other, session_id)).body = response.body

----------------------------------------------------------------------------
(* Error outcomes of extract_references (SpecExtract).                     *)

\* C11: extract_references never raises: on every citation list it returns a list,
\* in which a first-seen reference without content or text has the empty
\* snippet and one without score has the score 0.
C11_NoErrorOutcome ==
    pc = "extracted" =>
        /\ references.exc = NoExc
        /\ \A i \in 1..Len(references.value) :
              LET first == Received[FirstSeen(references.value[i].uri)]
              IN  /\ first.content.kind \in { "absent", "null", "no_text", "null_text" }
                       => references.value[i].snippet = << >>
                  /\ first.score.kind \in { "absent", "null" }
                       => references.value[i].score = NumScore(0)

----------------------------------------------------------------------------
(* References without a storage location (Spec).                           *)

\* the positions of the received references that have a storage location:
\* a 'location' with an 's3Location'
Located == { i \in 1..Len(Received) : Received[i].location.kind \notin { "absent", "no_s3" } }

\* C12: a retrieved reference without a storage location (no location, or a
\* location without s3Location) gives no entry in the output of
\* extract_references, and is passed neither to process_s3_urls nor to the
\* signer: every entry, every signing request and every processed reference
\* stems from a received reference with a storage location, and there are no
\* more of them than such references.
C12_NoLocationNoEntry ==
    Enriching =>
        /\ \A k \in 1..Len(references.value) :
              \E i \in Located :
                 /\ Received[i].location.uri = references.value[k].uri
                 /\ ScoreOf(Received[i]) = references.value[k].score
        /\ Len(references.value) <= Cardinality(Located)
        /\ \A k \in 1..Len(sign_requests) :
              \E i \in Located :
                 /\ sign_requests[k].bucket = BucketOf(Received[i].location.uri)
                 /\ sign_requests[k].key = KeyOf(Received[i].location.uri)
        /\ Len(sign_requests) <= Cardinality(Located)
        /\ \A k \in 1..Len(processed_refs) :
              \E i \in Located : Received[i].location.uri = processed_refs[k].uri

\* a reference without s3Location and one with a URI are received: one entry,
\* one signing request, one reference in the response
C12_Witness ==
    /\ pc = "done" /\ Enriched
    /\ Len(Received) = 2
    /\ Received[1].location.kind = "no_s3"
    /\ Received[2].location.kind = "uri"
    /\ Len(references.value) = 1
    /\ Len(sign_requests) = 1
    /\ response.statusCode = 200
    /\ Len(response.body.detailed_references) = 1

\* the sessionId that a request carries for the session value sid (Absent: none)
SentFor(sid) == IF sid # None THEN sid ELSE Absent

\* a call of call_api that returned None adds the user message only and keeps
\* session_id
FailedCallKeepsSession ==
    (chat_history.last = "input" /\ api_call.result.form = "none") =>
        /\ session_state.session_id = chat_history.before.session_id
        /\ session_state.messages =
              Append(chat_history.before.messages,
                     UserMessage(api_call.request_body.user_query))

\* clear_chat and logout leave no session_id and no messages
ResetsForget ==
    chat_history.last \in { "clear", "logout" } =>
        /\ session_state.session_id = None
        /\ session_state.messages = << >>

\* C13 as stated: the sessionId that call_api sends is the sessionId of the most
\* recent response that call_api returned since the last clear_chat or logout
\* (none is sent if there was no such response or it had no sessionId or a null
\* one); a call that returned None keeps session_id and adds no assistant message;
\* clear_chat and logout reset session_id and messages.
C13_SessionOfMostRecentResponse ==
    /\ api_call.made => api_call.request_body.sessionId = SentFor(chat_history.prior_recent)
    /\ FailedCallKeepsSession
    /\ ResetsForget

\* C13: the sessionId that call_api sends is the sessionId of the most recent
\* response, since the last clear_chat or logout, that call_api returned as a
\* non-empty object with a sessionId field (none is sent if there was no such
\* response or its sessionId was null): a response without the field keeps the
\* session. A call that returned None keeps session_id and adds no assistant
\* message; clear_chat and logout reset session_id to None and messages to empty.
C13_SessionOfMostRecentSessionId ==
    /\ api_call.made => api_call.request_body.sessionId = SentFor(chat_history.prior_latest)
    /\ session_state.session_id = chat_history.latest
    /\ FailedCallKeepsSession
    /\ ResetsForget

C13_Witness ==
    /\ chat_history.last = "input"
    /\ chat_history.inputs = 3
    /\ api_call.made
    /\ api_call.request_body.sessionId = "s1"
    /\ chat_history.prior_latest = "s1"
    /\ chat_history.prior_recent = None
    /\ api_call.result.form = "none"
    /\ session_state.session_id = "s1"
    /\ Len(session_state.messages) = 5
    /\ session_state.messages[5].role = "user"

====
